---------------------------- MODULE Spec2Model ----------------------------
(***************************************************************************)
(* Model of elora_hid (src/src/main.rs): a loop that runs a local command  *)
(* to pull stock prices, packs the text into a 32-byte HID report, writes  *)
(* it to the Elora keyboard, and sleeps for a market-hours dependent time. *)
(*                                                                         *)
(* Time is in whole seconds since a Monday 00:00:00 UTC.  Bytes are the    *)
(* numbers 0..255, a text is a sequence of bytes.                          *)
(***************************************************************************)
EXTENDS Integers, Sequences, FiniteSets, TLC

VARIABLES
    pc,            \* position of the program
    clock,         \* the wall clock (what Utc::now() returns when read)
    jumps,         \* number of forward steps the wall clock took between reads
    market_open,   \* result of is_market_open()
    date,          \* get_next_market_open: local `date` (day number)
    next_open,     \* get_refresh_rate: local `next_open`
    until_open,    \* get_refresh_rate: local `until_open`
    refresh_rate,  \* main: local `refresh_rate`
    deadline,      \* tokio Interval: time left until its next tick
    slept,         \* how long each interval.tick().await took since run() last returned
    decisions,     \* calls of get_refresh_rate since run() last returned
    last_run,      \* how run() ended in this iteration of the loop: "ok" or "err"
    text,          \* the string handed to send_to_keyboard / convert_to_buffer
    buf,           \* convert_to_buffer's result
    devs,          \* the device list of the HidApi built in this call
    handle,        \* send_to_keyboard: the result of open_device
    result,        \* outcome of run() in this cycle
    events,        \* what this cycle did to the outside world, in order
    displayed,     \* the last report the keyboard received
    tickers,       \* the pull script's TickerSet: price held for each symbol
    quotes         \* the provider's answers to the requests of this fetch

vars == << pc, clock, jumps, market_open, date, next_open, until_open,
           refresh_rate, deadline, slept, decisions, last_run, text, buf, devs,
           handle, result, events, displayed, tickers, quotes >>

policyVars == << market_open, date, next_open, until_open, refresh_rate >>
cycleVars == << text, buf, devs, handle, result, events, displayed,
               last_run, tickers, quotes >>
timerVars == << deadline, slept >>
fetchVars == << tickers, quotes >>

(***************************************************************************)
(* Program constants                                                       *)
(***************************************************************************)
VENDOR_ID == 36125
PRODUCT_ID == 40349
USAGE_ID == 97
USAGE_PAGE == 65376

REFRESH_RATE_MARKET_OPEN_SECS == 2 * 60
REFRESH_RATE_MARKET_CLOSED_SECS == 3 * 60 * 60

MARKET_OPEN_HOUR == 14
MARKET_OPEN_MINUTE == 30
MARKET_CLOSE_HOUR == 21
MARKET_CLOSE_MINUTE == 0

PACKET_SIZE == 32

(***************************************************************************)
(* Bounds of the model                                                     *)
(***************************************************************************)
\* longest input text given to convert_to_buffer on its own
MaxLen == 40
\* number of byte patterns the input texts are drawn from, minus one
MaxPattern == 2
\* forward steps of the wall clock between two reads, per run of the program
MaxJumps == 1

\* no value yet
None == "none"
\* no open_device result yet, and a keyboard that has received no report yet
NoHandle == [state |-> "none", path |-> 0]
Blank == << >>

\* the configured symbols, every price at the "unknown/unfetched" 0, and no
\* request made
Symbols == {"NVDA", "TSLA"}
Unfetched == [s \in Symbols |-> 0]
NoQuotes == [s \in Symbols |-> [kind |-> "none", price |-> 0]]

(***************************************************************************)
(* Vec<u8> operations used by convert_to_buffer                            *)
(***************************************************************************)
\* Vec::truncate(n): keeps the first n elements, no effect when n >= len
truncate(v, n) == IF n < Len(v) THEN SubSeq(v, 1, n) ELSE v

\* Vec::resize(n, value): extends with copies of value, or truncates
resize(v, n, value) ==
    IF n > Len(v) THEN v \o [i \in 1..(n - Len(v)) |-> value]
    ELSE truncate(v, n)

convert_to_buffer_NoPad(t) == truncate(t, PACKET_SIZE)

convert_to_buffer_KeepTail(t) ==
    IF Len(t) > PACKET_SIZE
    THEN SubSeq(t, Len(t) - PACKET_SIZE + 1, Len(t))
    ELSE resize(t, PACKET_SIZE, 0)

\* fn convert_to_buffer(text: String) -> Vec<u8>
convert_to_buffer(t) ==
    LET buf0 == t
        buf1 == IF Len(buf0) > PACKET_SIZE THEN truncate(buf0, PACKET_SIZE)
                ELSE buf0
        buf2 == IF Len(buf1) < PACKET_SIZE THEN resize(buf1, PACKET_SIZE, 0)
                ELSE buf1
    IN  buf2


(***************************************************************************)
(* chrono: dates, weekdays and times of day, in UTC                        *)
(***************************************************************************)
MINUTE == 60
HOUR == 60 * MINUTE
DAY == 24 * HOUR
WEEK == 7 * DAY

Mon == 0
Tue == 1
Wed == 2
Thu == 3
Fri == 4
Sat == 5
Sun == 6

\* DateTime::date_naive(): the day number of an instant
date_naive(t) == t \div DAY
\* Datelike::weekday() of a day number (day 0 is a Monday)
weekday(d) == d % 7
\* Timelike::hour() and Timelike::minute() of an instant
hour(t) == (t % DAY) \div HOUR
minute(t) == (t % HOUR) \div MINUTE
\* NaiveDate::and_hms_opt(h, m, s).unwrap().and_utc()
and_hms(d, h, m, s) == d * DAY + h * HOUR + m * MINUTE + s

(***************************************************************************)
(* The refresh policy                                                      *)
(***************************************************************************)
is_market_open_NoWeekendCheck(now) ==
    LET current_minutes == hour(now) * 60 + minute(now)
        open_minutes == MARKET_OPEN_HOUR * 60 + MARKET_OPEN_MINUTE
        close_minutes == MARKET_CLOSE_HOUR * 60 + MARKET_CLOSE_MINUTE
    IN  current_minutes >= open_minutes /\ current_minutes < close_minutes

is_market_open_CloseInclusive(now) ==
    LET wd == weekday(date_naive(now))
        current_minutes == hour(now) * 60 + minute(now)
        open_minutes == MARKET_OPEN_HOUR * 60 + MARKET_OPEN_MINUTE
        close_minutes == MARKET_CLOSE_HOUR * 60 + MARKET_CLOSE_MINUTE
    IN  IF wd = Sat \/ wd = Sun THEN FALSE
        ELSE current_minutes >= open_minutes /\ current_minutes <= close_minutes

\* fn is_market_open() -> bool, as a function of the value Utc::now() returned
is_market_open(now) ==
    LET wd == weekday(date_naive(now))
        current_minutes == hour(now) * 60 + minute(now)
        open_minutes == MARKET_OPEN_HOUR * 60 + MARKET_OPEN_MINUTE
        close_minutes == MARKET_CLOSE_HOUR * 60 + MARKET_CLOSE_MINUTE
    IN  IF wd = Sat \/ wd = Sun THEN FALSE
        ELSE current_minutes >= open_minutes /\ current_minutes < close_minutes

skip_weekend_SaturdayPlusOne(d) ==
    IF weekday(d) = Sat THEN d + 1
    ELSE IF weekday(d) = Sun THEN d + 1
    ELSE d

\* get_next_market_open, lines 63-68 and 83-87: "If Saturday or Sunday,
\* advance to Monday"
skip_weekend(d) ==
    IF weekday(d) = Sat THEN d + 2
    ELSE IF weekday(d) = Sun THEN d + 1
    ELSE d

next_open_from_NaiveTomorrow(d, now) ==
    LET open_today == and_hms(d, MARKET_OPEN_HOUR, MARKET_OPEN_MINUTE, 0)
    IN  IF now < open_today THEN open_today
        ELSE and_hms(d + 1, MARKET_OPEN_HOUR, MARKET_OPEN_MINUTE, 0)

\* get_next_market_open, lines 71-91: the result, given the local `date` and
\* the value of the second Utc::now()
next_open_from(d, now) ==
    LET open_today == and_hms(d, MARKET_OPEN_HOUR, MARKET_OPEN_MINUTE, 0)
    IN  IF now < open_today THEN open_today
        ELSE and_hms(skip_weekend(d + 1), MARKET_OPEN_HOUR, MARKET_OPEN_MINUTE, 0)

\* chrono::Duration::to_std(): an error for a negative duration
to_std(d) == IF d < 0 THEN [ok |-> FALSE, value |-> 0]
             ELSE [ok |-> TRUE, value |-> d]

closed_delay_ThresholdTwoHours(until) ==
    IF until < 2 * HOUR THEN to_std(until + 2 * MINUTE)
    ELSE [ok |-> TRUE, value |-> REFRESH_RATE_MARKET_CLOSED_SECS]

closed_delay_NoBuffer(until) ==
    IF until < 3 * HOUR THEN to_std(until)
    ELSE [ok |-> TRUE, value |-> REFRESH_RATE_MARKET_CLOSED_SECS]

closed_delay_ThresholdInclusive(until) ==
    IF until <= 3 * HOUR THEN to_std(until + 2 * MINUTE)
    ELSE [ok |-> TRUE, value |-> REFRESH_RATE_MARKET_CLOSED_SECS]

\* get_refresh_rate, lines 105-118: the closed branch, given `until_open`;
\* ok = FALSE is the unwrap() of line 106 panicking
closed_delay(until) ==
    IF until < 3 * HOUR THEN to_std(until + 2 * MINUTE)
    ELSE [ok |-> TRUE, value |-> REFRESH_RATE_MARKET_CLOSED_SECS]

(***************************************************************************)
(* The wall clock between two reads: the process may be suspended, or the  *)
(* clock stepped forward, for longer than the 2 minute buffer.             *)
(***************************************************************************)
JumpSizes == {2 * MINUTE + 1, 2 * MINUTE + 2}

Suspend ==
    /\ pc \in {"next_open_date", "next_open_now", "until_open"}
    /\ jumps < MaxJumps
    /\ \E g \in JumpSizes : clock' = clock + g
    /\ jumps' = jumps + 1
    /\ UNCHANGED << pc, policyVars, timerVars, decisions, cycleVars >>

\* get_refresh_rate line 96, is_market_open lines 43-55, and the open branch
IsMarketOpen ==
    /\ pc = "policy"
    /\ market_open' = is_market_open(clock)
    /\ IF market_open'
       THEN /\ refresh_rate' = REFRESH_RATE_MARKET_OPEN_SECS
            /\ pc' = "interval"
       ELSE /\ refresh_rate' = refresh_rate
            /\ pc' = "next_open_date"
    /\ decisions' = decisions + 1
    /\ UNCHANGED << clock, jumps, date, next_open, until_open, timerVars,
                    cycleVars >>

\* get_next_market_open lines 60-68: first read of the clock
NextOpenDate ==
    /\ pc = "next_open_date"
    /\ date' = skip_weekend(date_naive(clock))
    /\ pc' = "next_open_now"
    /\ UNCHANGED << clock, jumps, market_open, next_open, until_open,
                    refresh_rate, timerVars, decisions, cycleVars >>

\* get_next_market_open lines 71-91: second read of the clock
NextOpenNow ==
    /\ pc = "next_open_now"
    /\ next_open' = next_open_from(date, clock)
    /\ pc' = "until_open"
    /\ UNCHANGED << clock, jumps, market_open, date, until_open,
                    refresh_rate, timerVars, decisions, cycleVars >>

\* get_refresh_rate lines 104-118: third read of the clock in the closed branch
UntilOpen ==
    /\ pc = "until_open"
    /\ until_open' = next_open - clock
    /\ LET r == closed_delay(until_open')
       IN  IF r.ok
           THEN /\ refresh_rate' = r.value
                /\ pc' = "interval"
           ELSE /\ refresh_rate' = refresh_rate
                /\ pc' = "panicked"
    /\ UNCHANGED << clock, jumps, market_open, date, next_open, timerVars,
                    decisions, cycleVars >>

\* main line 275: tokio::time::interval(period) panics on a zero period; the
\* first tick of a new interval is due at once
MakeInterval ==
    /\ pc = "interval"
    /\ IF refresh_rate > 0
       THEN /\ deadline' = 0
            /\ pc' = "reset"
       ELSE /\ deadline' = deadline
            /\ pc' = "panicked"
    /\ UNCHANGED << clock, jumps, policyVars, slept, decisions, cycleVars >>

(***************************************************************************)
(* The refresh policy on its own, from every instant of a week             *)
(***************************************************************************)
\* seconds within a minute the instants are taken at: the minute's first
\* second, the one after it, and its last (the policy compares instants with
\* whole minutes only)
SubMinute == {0, 1, MINUTE - 1}

Instants == { m * MINUTE + s : m \in 0..(7 * 24 * 60 - 1), s \in SubMinute }

InitCommon ==
    /\ jumps = 0
    /\ market_open = FALSE
    /\ date = 0
    /\ next_open = 0
    /\ until_open = 0
    /\ refresh_rate = 0
    /\ deadline = 0
    /\ slept = << >>
    /\ decisions = 0
    /\ last_run = None
    /\ buf = << >>
    /\ devs = << >>
    /\ handle = NoHandle
    /\ result = None
    /\ events = << >>
    /\ displayed = Blank
    /\ quotes = NoQuotes

InitPolicy ==
    /\ pc = "policy"
    /\ clock \in Instants
    /\ text = << >>
    /\ tickers = Unfetched
    /\ InitCommon

NextPolicy ==
    \/ IsMarketOpen
    \/ NextOpenDate
    \/ NextOpenNow
    \/ UntilOpen
    \/ MakeInterval
    \/ Suspend

SpecPolicy == InitPolicy /\ [][NextPolicy]_vars

(***************************************************************************)
(* convert_to_buffer on its own, on texts of every length up to MaxLen     *)
(***************************************************************************)
Byte(k, i) ==
    CASE k = 0 -> 65
      [] k = 1 -> (i * 7) % 256
      [] OTHER -> IF i % 3 = 0 THEN 0 ELSE 10 + k

InputTexts ==
    { [i \in 1..n |-> Byte(k, i)] : n \in 0..MaxLen, k \in 0..MaxPattern }

InitBuf ==
    /\ pc = "convert"
    /\ clock = 0
    /\ InitCommon
    /\ text \in InputTexts
    /\ tickers = Unfetched

ConvertToBuffer ==
    /\ pc = "convert"
    /\ buf' = convert_to_buffer(text)
    /\ pc' = "converted"
    /\ UNCHANGED << fetchVars, clock, jumps, policyVars, timerVars,
                    decisions, text,
                    devs, handle, result, events, displayed, last_run >>

NextBuf == ConvertToBuffer

SpecBuf == InitBuf /\ [][NextBuf]_vars

(***************************************************************************)
(* The fetch: the pull command and the price file                          *)
(***************************************************************************)
ErrCommandStart == "Failed to execute command"
ErrExitCode == "Command finished with non-zero exit code"
ErrNotFound == "Command finished, but prices.txt was not found"
ErrRead == "Failed to read file"
ErrEmpty == "Price file was empty"
ErrHidInit == "HidApi::new failed"
ErrDisconnected == "Device disconnected"
ErrOpen == "open_device failed"
ErrWrite == "write failed"
Ok == "Ok"

\* char::is_whitespace on the ASCII range
is_whitespace(b) == b \in {9, 10, 11, 12, 13, 32}

RECURSIVE trim_start(_)
trim_start(t) ==
    IF t # << >> /\ is_whitespace(Head(t)) THEN trim_start(Tail(t)) ELSE t

RECURSIVE trim_end(_)
trim_end(t) ==
    IF t # << >> /\ is_whitespace(t[Len(t)])
    THEN trim_end(SubSeq(t, 1, Len(t) - 1))
    ELSE t

\* str::trim(): leading and trailing whitespace removed
trim(t) == trim_end(trim_start(t))

\* what prices.txt may hold when it is read: nothing, only whitespace, a NUL
\* character and a newline (read_to_string accepts any UTF-8, and NUL is not
\* white space), two short lines with a trailing newline ("N: 2$\nT: 5$\n"),
\* and a text that is longer than a packet after trimming
LongContent == <<32>> \o [i \in 1..(PACKET_SIZE + 3) |-> 64 + i] \o <<10>>

FileContents ==
    { << >>,
      <<32, 10>>,
      <<0, 10>>,
      <<78, 58, 32, 50, 36, 10, 84, 58, 32, 53, 36, 10>>,
      LongContent }

\* what the file system may show after the command: no prices.txt, one that
\* cannot be read, or one with a content
FileStates ==
    { [kind |-> "absent", content |-> << >>],
      [kind |-> "unreadable", content |-> << >>] }
    \cup { [kind |-> "file", content |-> c] : c \in FileContents }

(***************************************************************************)
(* The HID devices                                                         *)
(***************************************************************************)
\* the raw HID interface of the Elora
Elora(path) ==
    [vendor_id |-> VENDOR_ID, product_id |-> PRODUCT_ID, usage |-> USAGE_ID,
     usage_page |-> USAGE_PAGE, path |-> path]

\* the keyboard interface of the same Elora: another usage and usage page
EloraKeys(path) ==
    [vendor_id |-> VENDOR_ID, product_id |-> PRODUCT_ID, usage |-> 6,
     usage_page |-> 1, path |-> path]

\* a device of another vendor with the same usage and usage page
OtherRawHid(path) ==
    [vendor_id |-> 1, product_id |-> PRODUCT_ID, usage |-> USAGE_ID,
     usage_page |-> USAGE_PAGE, path |-> path]

\* what an enumeration may return
DeviceLists ==
    { << >>,
      << EloraKeys(1), OtherRawHid(2) >>,
      << OtherRawHid(1), EloraKeys(2), Elora(3) >>,
      << Elora(1), Elora(2) >> }

find_elora_device_LastMatch(list) ==
    LET matching == { i \in 1..Len(list) :
                        /\ list[i].vendor_id = VENDOR_ID
                        /\ list[i].product_id = PRODUCT_ID
                        /\ list[i].usage = USAGE_ID
                        /\ list[i].usage_page = USAGE_PAGE }
    IN  IF matching = {} THEN 0
        ELSE CHOOSE i \in matching : \A j \in matching : i >= j

find_elora_device_VendorProductOnly(list) ==
    LET matching == { i \in 1..Len(list) :
                        /\ list[i].vendor_id = VENDOR_ID
                        /\ list[i].product_id = PRODUCT_ID }
    IN  IF matching = {} THEN 0
        ELSE CHOOSE i \in matching : \A j \in matching : i <= j

\* fn find_elora_device(api) -> Option<&DeviceInfo>: the index of the first
\* device of the list that matches, 0 for None
find_elora_device(list) ==
    LET matching == { i \in 1..Len(list) :
                        /\ list[i].vendor_id = VENDOR_ID
                        /\ list[i].product_id = PRODUCT_ID
                        /\ list[i].usage = USAGE_ID
                        /\ list[i].usage_page = USAGE_PAGE }
    IN  IF matching = {} THEN 0
        ELSE CHOOSE i \in matching : \A j \in matching : i <= j

(***************************************************************************)
(* main, run, fetch_prices_from_local_command and send_to_keyboard         *)
(***************************************************************************)
Startup_ExitsWithoutDevice ==
    /\ pc = "startup"
    /\ \E ok \in BOOLEAN, list \in DeviceLists :
          IF ok /\ find_elora_device(list) # 0
          THEN events' = << "hid_init", "enumerate" >> /\ pc' = "run_start"
          ELSE events' = << "hid_init" >> /\ pc' = "exited"
    /\ UNCHANGED << fetchVars, clock, jumps, policyVars, timerVars,
                    decisions, text, buf,
                    devs, handle, result, displayed, last_run >>

\* main lines 259-264: the presence check at startup.  HidApi::new() may fail;
\* when it succeeds and no Elora is in its list, a warning is logged.  Nothing
\* of the check is kept.
Startup ==
    /\ pc = "startup"
    /\ \E ok \in BOOLEAN, list \in DeviceLists :
          events' = IF ~ok THEN << "hid_init" >>
                    ELSE IF find_elora_device(list) = 0
                         THEN << "hid_init", "enumerate", "warn" >>
                         ELSE << "hid_init", "enumerate" >>
    /\ pc' = "run_start"
    /\ UNCHANGED << fetchVars, clock, jumps, policyVars, timerVars,
                    decisions, text, buf,
                    devs, handle, result, displayed, last_run >>

\* main lines 266-268: an iteration of the loop begins and calls run().  The
\* locals of the previous iteration are gone; the clock is kept within one
\* week, which changes no weekday and no time of day.
RunStart ==
    /\ pc = "run_start"
    /\ clock' = clock % WEEK
    /\ market_open' = FALSE
    /\ date' = 0
    /\ next_open' = 0
    /\ until_open' = 0
    /\ refresh_rate' = 0
    /\ deadline' = 0
    /\ text' = << >>
    /\ buf' = << >>
    /\ devs' = << >>
    /\ handle' = NoHandle
    /\ result' = None
    /\ events' = << >>
    /\ last_run' = None
    /\ pc' = "fetch_command"
    /\ UNCHANGED << fetchVars, jumps, slept, decisions, displayed >>

\* the function returns Err(e) to run(), which returns it to main
ReturnErr(e) ==
    /\ result' = e
    /\ pc' = "run_done"

\* fetch_prices_from_local_command lines 133-141: run the pull command
FetchCommand ==
    /\ pc = "fetch_command"
    /\ events' = Append(events, "command")
    /\ \E outcome \in {"spawn_error", "non_zero", "success"} :
          CASE outcome = "spawn_error" -> ReturnErr(ErrCommandStart)
            [] outcome = "non_zero" -> ReturnErr(ErrExitCode)
            [] OTHER -> result' = result /\ pc' = "fetch_file"
    /\ UNCHANGED << fetchVars, clock, jumps, policyVars, timerVars,
                    decisions, text, buf,
                    devs, handle, displayed, last_run >>

FetchFile_NoEmptyCheck ==
    /\ pc = "fetch_file"
    /\ \E file \in FileStates :
          CASE file.kind = "absent" ->
                 /\ events' = Append(events, "exists")
                 /\ text' = text
                 /\ ReturnErr(ErrNotFound)
            [] file.kind = "unreadable" ->
                 /\ events' = events \o << "exists", "read" >>
                 /\ text' = text
                 /\ ReturnErr(ErrRead)
            [] OTHER ->
                 /\ events' = events \o << "exists", "read" >>
                 /\ text' = trim(file.content)
                 /\ result' = result
                 /\ pc' = "send_init"
    /\ UNCHANGED << fetchVars, clock, jumps, policyVars, timerVars,
                    decisions, buf, devs,
                    handle, displayed, last_run >>

\* fetch_prices_from_local_command lines 144-161: check, read and trim the file
FetchFile ==
    /\ pc = "fetch_file"
    /\ \E file \in FileStates :
          CASE file.kind = "absent" ->
                 /\ events' = Append(events, "exists")
                 /\ text' = text
                 /\ ReturnErr(ErrNotFound)
            [] file.kind = "unreadable" ->
                 /\ events' = events \o << "exists", "read" >>
                 /\ text' = text
                 /\ ReturnErr(ErrRead)
            [] OTHER ->
                 /\ events' = events \o << "exists", "read" >>
                 /\ LET trimmed == trim(file.content)
                    IN  IF trimmed = << >>
                        THEN text' = text /\ ReturnErr(ErrEmpty)
                        ELSE text' = trimmed /\ result' = result
                             /\ pc' = "send_init"
    /\ UNCHANGED << fetchVars, clock, jumps, policyVars, timerVars,
                    decisions, buf, devs,
                    handle, displayed, last_run >>

\* send_to_keyboard line 199: HidApi::new() enumerates the devices
SendInit ==
    /\ pc = "send_init"
    /\ \/ /\ events' = Append(events, "hid_init")
          /\ devs' = devs
          /\ ReturnErr(ErrHidInit)
       \/ /\ events' = events \o << "hid_init", "enumerate" >>
          /\ devs' \in DeviceLists
          /\ result' = result
          /\ pc' = "send_find"
    /\ UNCHANGED << fetchVars, clock, jumps, policyVars, timerVars,
                    decisions, text, buf,
                    handle, displayed, last_run >>

\* send_to_keyboard lines 200-204
SendFind ==
    /\ pc = "send_find"
    /\ IF find_elora_device(devs) = 0
       THEN ReturnErr(ErrDisconnected)
       ELSE result' = result /\ pc' = "send_open"
    /\ UNCHANGED << fetchVars, clock, jumps, policyVars, timerVars,
                    decisions, text, buf,
                    devs, handle, events, displayed, last_run >>

SendOpen_FirstListed ==
    /\ pc = "send_open"
    /\ events' = Append(events, "open")
    /\ \/ handle' = [state |-> "open", path |-> devs[1].path]
       \/ handle' = [state |-> "error", path |-> 0]
    /\ pc' = "send_convert"
    /\ UNCHANGED << fetchVars, clock, jumps, policyVars, timerVars,
                    decisions, text, buf,
                    devs, result, displayed, last_run >>

\* send_to_keyboard line 206: the result of open_device is kept, not yet tested
SendOpen ==
    /\ pc = "send_open"
    /\ events' = Append(events, "open")
    /\ \/ handle' = [state |-> "open", path |-> devs[find_elora_device(devs)].path]
       \/ handle' = [state |-> "error", path |-> 0]
    /\ pc' = "send_convert"
    /\ UNCHANGED << fetchVars, clock, jumps, policyVars, timerVars,
                    decisions, text, buf,
                    devs, result, displayed, last_run >>

\* send_to_keyboard line 207
SendConvert ==
    /\ pc = "send_convert"
    /\ buf' = convert_to_buffer(text)
    /\ events' = Append(events, "encode")
    /\ pc' = "send_write"
    /\ UNCHANGED << fetchVars, clock, jumps, policyVars, timerVars,
                    decisions, text, devs,
                    handle, result, displayed, last_run >>

SendWrite_WriteBeforeOpenResult ==
    /\ pc = "send_write"
    /\ events' = Append(events, "write")
    /\ IF handle.state # "open"
       THEN /\ displayed' = displayed
            /\ ReturnErr(ErrOpen)
       ELSE \/ /\ displayed' = buf
               /\ ReturnErr(Ok)
            \/ /\ displayed' = displayed
               /\ ReturnErr(ErrWrite)
    /\ UNCHANGED << fetchVars, clock, jumps, policyVars, timerVars,
                    decisions, text, buf,
                    devs, handle, last_run >>

\* send_to_keyboard lines 210-225: `device?` returns the open error, else the
\* buffer is written
SendWrite ==
    /\ pc = "send_write"
    /\ IF handle.state # "open"
       THEN /\ ReturnErr(ErrOpen)
            /\ UNCHANGED << events, displayed >>
       ELSE /\ events' = Append(events, "write")
            /\ \/ /\ displayed' = buf
                  /\ ReturnErr(Ok)
               \/ /\ displayed' = displayed
                  /\ ReturnErr(ErrWrite)
    /\ UNCHANGED << fetchVars, clock, jumps, policyVars, timerVars,
                    decisions, text, buf,
                    devs, handle, last_run >>

\* main lines 268-273: run() has returned, an error is logged, and the loop
\* goes on to get_refresh_rate()
MainAfterRun ==
    /\ pc = "run_done"
    /\ last_run' = IF result = Ok THEN "ok" ELSE "err"
    /\ result' = None
    /\ slept' = << >>
    /\ decisions' = 0
    /\ text' = << >>
    /\ buf' = << >>
    /\ devs' = << >>
    /\ handle' = NoHandle
    /\ events' = << >>
    /\ pc' = "policy"
    /\ UNCHANGED << fetchVars, clock, jumps, policyVars, deadline, displayed >>

reset_deadline_FirstTickImmediate(period) == 0

\* Interval::reset(): the next tick is due one period from now
reset_deadline(period) == period

\* main line 276
IntervalReset ==
    /\ pc = "reset"
    /\ deadline' = reset_deadline(refresh_rate)
    /\ pc' = "tick"
    /\ UNCHANGED << clock, jumps, policyVars, slept, decisions, cycleVars >>

\* main lines 277-278: the tick completes when it is due, and the loop repeats
IntervalTick ==
    /\ pc = "tick"
    /\ clock' = clock + deadline
    /\ slept' = Append(slept, deadline)
    /\ deadline' = refresh_rate
    /\ pc' = "run_start"
    /\ UNCHANGED << jumps, policyVars, decisions, cycleVars >>

\* instants the program is started at
StartInstants ==
    { Mon * DAY + 14 * HOUR + 29 * MINUTE + 59,
      Wed * DAY + 11 * HOUR + 30 * MINUTE,
      Fri * DAY + 20 * HOUR + 59 * MINUTE,
      Sun * DAY + 23 * HOUR }

Init ==
    /\ pc = "startup"
    /\ clock \in StartInstants
    /\ text = << >>
    /\ tickers = Unfetched
    /\ InitCommon

Program ==
    \/ Startup
    \/ RunStart
    \/ FetchCommand
    \/ FetchFile
    \/ SendInit
    \/ SendFind
    \/ SendOpen
    \/ SendConvert
    \/ SendWrite
    \/ MainAfterRun
    \/ IsMarketOpen
    \/ NextOpenDate
    \/ NextOpenNow
    \/ UntilOpen
    \/ MakeInterval
    \/ IntervalReset
    \/ IntervalTick

Next == Program \/ Suspend

Spec == Init /\ [][Next]_vars

\* the program is never stopped from outside: whenever it can take a step it
\* eventually takes one
FairSpec == Spec /\ WF_vars(Program)

(***************************************************************************)
(* Reference notions the claims are stated with                            *)
(***************************************************************************)
\* the instant's second of the day lies in [14:30:00, 21:00:00) on Mon-Fri
RefMarketOpen(t) ==
    /\ (t \div DAY) % 7 \in {Mon, Tue, Wed, Thu, Fri}
    /\ t % DAY >= 14 * HOUR + 30 * MINUTE
    /\ t % DAY < 21 * HOUR

\* the earliest 14:30:00 of a Monday-Friday strictly after t
RefNextOpen(t) ==
    LET opens == { d * DAY + 14 * HOUR + 30 * MINUTE :
                     d \in { e \in (t \div DAY)..((t \div DAY) + 3) :
                               e % 7 \in {Mon, Tue, Wed, Thu, Fri} } }
        later == { o \in opens : o > t }
    IN  CHOOSE o \in later : \A q \in later : o <= q

\* get_refresh_rate has returned, having read one and the same clock value
Decided == pc \in {"interval", "reset"} /\ jumps = 0

(***************************************************************************)
(* Claims                                                                  *)
(***************************************************************************)
\* C1: for every input text, the empty one included, convert_to_buffer
\* returns a buffer of exactly PACKET_SIZE = 32 bytes.
C1_BufferLength == pc = "converted" => Len(buf) = PACKET_SIZE

C1_Witness == pc = "converted" /\ Len(text) = 0 /\ Len(buf) = PACKET_SIZE

\* C2: convert_to_buffer(x) is the first 32 bytes of x, right-padded with
\* zero bytes: byte i is x[i] where x has one, and 0 elsewhere.
C2_PrefixZeroPadded ==
    pc = "converted" =>
        buf = [i \in 1..PACKET_SIZE |-> IF i <= Len(text) THEN text[i] ELSE 0]

C2_Witness ==
    /\ pc = "converted"
    /\ Len(text) > PACKET_SIZE
    /\ text[Len(text)] # text[PACKET_SIZE]
    /\ buf[PACKET_SIZE] = text[PACKET_SIZE]

\* C3: at an instant of a Saturday or Sunday, whatever the time of day, the
\* policy reports the market closed and returns the closed-market wait.
C3_WeekendNeverOpen ==
    (pc # "policy" /\ jumps = 0 /\ (clock \div DAY) % 7 \in {Sat, Sun}) =>
        /\ ~market_open
        /\ Decided => refresh_rate = REFRESH_RATE_MARKET_CLOSED_SECS

C3_Witness ==
    /\ Decided
    /\ (clock \div DAY) % 7 = Sat
    /\ clock % DAY = 15 * HOUR
    /\ ~market_open
    /\ refresh_rate = 3 * HOUR

\* C4 as claimed: one minute after Friday's close the wake-up now + wait is
\* at or after Monday 14:30.
C4_WakeUpAtOrAfterMondayOpen ==
    (Decided /\ clock = Fri * DAY + 21 * HOUR + 1 * MINUTE) =>
        clock + refresh_rate >= 7 * DAY + 14 * HOUR + 30 * MINUTE

\* C4 as amended: one minute after Friday's close the next market open the
\* policy computes is Monday 14:30 (not a Saturday), and as that is 3 hours
\* or more away the wait is 3 hours: the wake-up is Saturday 00:01.
C4_NextOpenIsMondayWaitThreeHours ==
    (Decided /\ clock = Fri * DAY + 21 * HOUR + 1 * MINUTE) =>
        /\ next_open = 7 * DAY + 14 * HOUR + 30 * MINUTE
        /\ (next_open \div DAY) % 7 = Mon
        /\ refresh_rate = 3 * HOUR
        /\ clock + refresh_rate = Sat * DAY + 1 * MINUTE

C4_Witness ==
    /\ Decided
    /\ clock = Fri * DAY + 21 * HOUR + 1 * MINUTE
    /\ ~market_open
    /\ refresh_rate > 0

\* C5: on Monday-Friday the market is reported open, with a wait of exactly
\* 120 seconds, exactly at the instants of [14:30, 21:00).
C5_OpenWindow ==
    (pc # "policy" /\ jumps = 0 /\ (clock \div DAY) % 7 \in {Mon, Tue, Wed, Thu, Fri}) =>
        IF clock % DAY >= 14 * HOUR + 30 * MINUTE /\ clock % DAY < 21 * HOUR
        THEN market_open /\ Decided /\ refresh_rate = 120
        ELSE ~market_open

C5_Witness ==
    /\ Decided
    /\ (clock \div DAY) % 7 = Fri
    /\ clock % DAY = 21 * HOUR - 1
    /\ market_open
    /\ refresh_rate = 120

\* C6: when the market is closed, the wait is (next open - now) + 2 minutes
\* if the next open is less than 3 hours away, and 3 hours otherwise.
C6_ClosedWait ==
    (Decided /\ ~RefMarketOpen(clock)) =>
        IF RefNextOpen(clock) - clock < 3 * HOUR
        THEN refresh_rate = (RefNextOpen(clock) - clock) + 2 * MINUTE
        ELSE refresh_rate = 3 * HOUR

C6_Witness ==
    /\ Decided
    /\ clock = Wed * DAY + 11 * HOUR + 30 * MINUTE
    /\ ~market_open
    /\ next_open - clock = 3 * HOUR
    /\ refresh_rate = 3 * HOUR

\* C7: whatever non-decreasing values the clock reads of one decision
\* return, the policy does not panic.
C7_PolicyNeverPanics == pc # "panicked"

\* no device of the list carries the target signature
NoMatch(list) ==
    ~ \E i \in 1..Len(list) :
        << list[i].vendor_id, list[i].product_id, list[i].usage, list[i].usage_page >>
            = << VENDOR_ID, PRODUCT_ID, USAGE_ID, USAGE_PAGE >>

Happened(e) == \E i \in 1..Len(events) : events[i] = e

\* C8: whatever the outcome of a cycle, another cycle is started after it:
\* every return of run() is eventually followed by the start of a cycle.
C8_CycleLeadsToNextCycle == (pc = "run_done") ~> (pc = "run_start")

\* C9: a cycle starts either straight after startup or after exactly one
\* call of the refresh policy since the previous cycle ended, followed by one
\* sleep that took exactly the time the policy returned.
C9_SleepsExactlyTheDecidedWait ==
    pc = "run_start" =>
        \/ last_run = None /\ events # << >> /\ slept = << >>
        \/ /\ last_run # None
           /\ decisions = 1
           /\ refresh_rate > 0
           /\ slept = << refresh_rate >>

C9_Witness ==
    /\ pc = "run_start"
    /\ last_run = "err"
    /\ decisions = 1
    /\ slept = << 3 * HOUR >>

\* C10: when the enumeration holds no device with the target signature,
\* send_to_keyboard returns the error "Device disconnected" without opening
\* or writing anything, and main goes on with the loop.
C10_DeviceNotFoundIsRecoverable ==
    /\ [][(pc = "send_find" /\ NoMatch(devs)) =>
            /\ pc' = "run_done"
            /\ result' = ErrDisconnected
            /\ events' = events
            /\ handle' = NoHandle
            /\ displayed' = displayed]_vars
    /\ [][(pc = "run_done" /\ result = ErrDisconnected) =>
            /\ pc' = "policy"
            /\ last_run' = "err"
            /\ displayed' = displayed]_vars
    /\ []((pc = "run_done" /\ result = ErrDisconnected) =>
            /\ NoMatch(devs)
            /\ ~Happened("open")
            /\ ~Happened("write"))

C10_Witness ==
    /\ pc = "run_done"
    /\ result = ErrDisconnected
    /\ devs = << EloraKeys(1), OtherRawHid(2) >>
    /\ ~Happened("open")
    /\ ~Happened("write")

(***************************************************************************)
(* The pull script on its own.  main.rs starts it as an external command   *)
(* (line 133) and sees only its exit status and the file it leaves; what   *)
(* it does for each symbol is the Quote Source Adapter of the written      *)
(* specification (section 4.2), modelled here from that text.              *)
(***************************************************************************)

\* the prices a symbol can have; 0 is the "unknown/unfetched" value
MaxPrice == 4
Prices == 0 .. MaxPrice

\* the provider's answer to one request: a price, or a failure (transport
\* error, malformed response, price field absent or unparsable)
Failed == [kind |-> "fail", price |-> 0]
Quote(p) == [kind |-> "price", price |-> p]
Answers == {Failed} \cup {Quote(p) : p \in Prices}

\* a failed symbol makes the whole batch keep its old values
fetch_AbortOnFailure(ts, qs) ==
    IF \E s \in Symbols : qs[s] = Failed
       THEN ts
       ELSE [s \in Symbols |-> qs[s].price]

\* fetch(symbols) -> TickerSet: a symbol whose request failed keeps its
\* existing value, every other symbol takes the price of its answer
fetch(ts, qs) ==
    [s \in Symbols |-> IF qs[s] = Failed THEN ts[s] ELSE qs[s].price]

\* one run of the pull script: without the access credential no request is
\* made and the command exits with a failure status (the systemic error);
\* with it every configured symbol is requested once and the command succeeds
Pull ==
    /\ pc = "pull"
    /\ \E credential \in BOOLEAN :
          IF credential
             THEN /\ \E qs \in [Symbols -> Answers] :
                        /\ quotes' = qs
                        /\ tickers' = fetch(tickers, qs)
                  /\ result' = result
                  /\ pc' = "pulled"
             ELSE /\ UNCHANGED fetchVars
                  /\ ReturnErr(ErrExitCode)
    /\ UNCHANGED << clock, jumps, policyVars, timerVars, decisions, text, buf,
                    devs, handle, events, displayed, last_run >>

InitFetch ==
    /\ pc = "pull"
    /\ clock = 0
    /\ text = << >>
    /\ tickers \in [Symbols -> Prices]
    /\ InitCommon

NextFetch == Pull

SpecFetch == InitFetch /\ [][NextFetch]_vars

\* C11: in a fetch where one symbol's request fails and another's succeeds,
\* the failed symbol keeps the value it had, every successful symbol takes its
\* new price, and the fetch as a whole does not fail.
C11_FailedSymbolKeepsItsValue ==
    [][(/\ pc = "pull"
        /\ \E s \in Symbols : quotes'[s] = Failed
        /\ \E s \in Symbols : quotes'[s].kind = "price")
       => /\ \A s \in Symbols :
                IF quotes'[s] = Failed
                   THEN tickers'[s] = tickers[s]
                   ELSE tickers'[s] = quotes'[s].price
          /\ result' = None
          /\ pc' = "pulled"]_vars

\* NVDA's request failed and NVDA still has its old price 1, TSLA's succeeded
\* and TSLA has its new price 3
C11_Witness ==
    /\ pc = "pulled"
    /\ quotes["NVDA"] = Failed
    /\ quotes["TSLA"] = Quote(3)
    /\ tickers["NVDA"] = 1
    /\ tickers["TSLA"] = 3
    /\ result = None

\* how often e happened since run() was called
Count(e) == Cardinality({i \in 1..Len(events) : events[i] = e})

\* C12: a cycle issues at most one HID write, and the buffer of every write
\* (and so every report the keyboard receives) has exactly PACKET_SIZE bytes.
C12_OneWriteOfOnePacket ==
    /\ Count("write") <= 1
    /\ Happened("write") => Len(buf) = PACKET_SIZE
    /\ displayed # Blank => Len(displayed) = PACKET_SIZE

\* a text shorter than a packet has been written, in one write of PACKET_SIZE
\* bytes that end in zero padding
C12_Witness ==
    /\ pc = "run_done"
    /\ result = Ok
    /\ Count("write") = 1
    /\ Len(text) < PACKET_SIZE
    /\ Len(displayed) = PACKET_SIZE
    /\ displayed[PACKET_SIZE] = 0

\* get_next_market_open has returned in a decision that read one and the same
\* clock value and found the market closed
NextOpenKnown ==
    pc \in {"until_open", "interval", "reset"} /\ jumps = 0 /\ ~market_open

\* C13: for every closed instant, get_next_market_open returns the earliest
\* instant strictly after it that is 14:30:00 of a Monday-Friday, never one
\* on a Saturday or Sunday: the following Monday's 14:30 from a Friday at or
\* after 14:30 and from a Saturday or Sunday, the same day's 14:30 from a
\* weekday before 14:30.  The function gives these values at open instants
\* as well.
C13_NextOpenIsEarliestWeekdayOpen ==
    /\ NextOpenKnown =>
          /\ next_open = RefNextOpen(clock)
          /\ next_open > clock
          /\ next_open % DAY = 14 * HOUR + 30 * MINUTE
          /\ (next_open \div DAY) % 7 \notin {Sat, Sun}
          /\ ((clock \div DAY) % 7 \in {Sat, Sun}
                 \/ ((clock \div DAY) % 7 = Fri
                       /\ clock % DAY >= 14 * HOUR + 30 * MINUTE))
               => next_open = ((clock \div WEEK) + 1) * WEEK
                                + 14 * HOUR + 30 * MINUTE
          /\ ((clock \div DAY) % 7 \notin {Sat, Sun}
                 /\ clock % DAY < 14 * HOUR + 30 * MINUTE)
               => next_open = (clock \div DAY) * DAY + 14 * HOUR + 30 * MINUTE
    /\ pc = "policy" =>
          next_open_from(skip_weekend(date_naive(clock)), clock)
              = RefNextOpen(clock)

\* Friday 21:00:00, the market just closed: the next open is Monday 14:30
C13_Witness ==
    /\ NextOpenKnown
    /\ clock = Fri * DAY + 21 * HOUR
    /\ next_open = WEEK + 14 * HOUR + 30 * MINUTE

\* run() has been called and main has not yet taken its result
InCycle ==
    pc \in {"fetch_command", "fetch_file", "send_init", "send_find",
            "send_open", "send_convert", "send_write", "run_done"}

\* the place of the first e among the events of this cycle, 0 if none
Pos(e) ==
    IF Happened(e)
    THEN CHOOSE i \in 1..Len(events) :
             events[i] = e /\ \A j \in 1..(i - 1) : events[j] # e
    ELSE 0

FetchErrors == {ErrCommandStart, ErrExitCode, ErrNotFound, ErrRead, ErrEmpty}

\* the steps of a cycle that gets as far as the write
StepOrder == << "command", "exists", "read", "hid_init", "enumerate", "open",
                "encode", "write" >>

IsElora(d) ==
    << d.vendor_id, d.product_id, d.usage, d.usage_page >>
        = << VENDOR_ID, PRODUCT_ID, USAGE_ID, USAGE_PAGE >>

\* the place of the earliest device of the list with the target signature
FirstMatch(list) ==
    CHOOSE i \in 1..Len(list) :
        IsElora(list[i]) /\ \A j \in 1..(i - 1) : ~IsElora(list[j])

\* C15: every send resolves the device from an enumeration of its own cycle
\* and nothing of it is carried over: a cycle starts without a device list or
\* a handle whatever the cycles before it did, its send fails with "Device
\* disconnected" exactly when its own list has no match, and a cycle whose
\* fetch succeeded and whose matching device opened writes to the earliest
\* match of its own list.
C15_DeviceResolvedInThisCycle ==
    /\ pc \in {"run_start", "fetch_command", "fetch_file", "send_init"} =>
          devs = << >> /\ handle = NoHandle
    /\ pc \in {"send_find", "send_open", "send_convert", "send_write"} =>
          Happened("enumerate")
    /\ handle.state = "open" =>
          /\ Happened("enumerate")
          /\ ~NoMatch(devs)
          /\ handle.path = devs[FirstMatch(devs)].path
    /\ (pc = "run_done" /\ Happened("enumerate")) =>
          (result = ErrDisconnected <=> NoMatch(devs))
    /\ (pc = "run_done" /\ handle.state = "open") =>
          /\ Happened("write")
          /\ result \in {Ok, ErrWrite}
          /\ result = Ok => displayed = convert_to_buffer(text)

\* no cycle so far has written anything, and in this later cycle the fetch
\* succeeded and the Elora, third in this cycle's list, was found and opened
C15_Witness ==
    /\ pc = "send_write"
    /\ slept # << >>
    /\ displayed = Blank
    /\ devs = << OtherRawHid(1), EloraKeys(2), Elora(3) >>
    /\ handle = [state |-> "open", path |-> 3]

\* the presence check is over and the loop has not yet called run()
BeforeFirstCycle == pc = "run_start" /\ slept = << >>

\* C16: the presence check at startup is not fatal.  Whether the keyboard is
\* present, absent, or the HID subsystem cannot be initialised, the check
\* opens and writes nothing, the process does not exit, and the loop's first
\* cycle starts next, at the same clock value, before any policy decision and
\* any sleep.
C16_StartupCheckIsNotFatal ==
    /\ [][pc = "startup" =>
            /\ pc' = "run_start"
            /\ clock' = clock
            /\ events' \in { << "hid_init" >>,
                             << "hid_init", "enumerate" >>,
                             << "hid_init", "enumerate", "warn" >> }
            /\ displayed' = Blank
            /\ handle' = NoHandle]_vars
    /\ [](BeforeFirstCycle =>
            /\ decisions = 0
            /\ deadline = 0
            /\ displayed = Blank
            /\ clock \in StartInstants)
    /\ [][BeforeFirstCycle => pc' = "fetch_command" /\ slept' = << >>]_vars

\* the keyboard was absent at startup: the warning was logged, and the loop
\* is about to run its first cycle, nothing decided and nothing slept
C16_Witness ==
    /\ BeforeFirstCycle
    /\ events = << "hid_init", "enumerate", "warn" >>
    /\ decisions = 0
    /\ displayed = Blank

(***************************************************************************)
(* find_elora_device on its own, on every list of up to MaxDevices devices *)
(* that are an Elora or differ from it in exactly one of the four fields   *)
(***************************************************************************)
MaxDevices == 3

Fields == {"vendor_id", "product_id", "usage", "usage_page"}

\* a device that differs from the Elora's raw HID interface in field f only
\* (f = "none": in no field)
AllBut(f, path) ==
    [vendor_id |-> IF f = "vendor_id" THEN VENDOR_ID + 1 ELSE VENDOR_ID,
     product_id |-> IF f = "product_id" THEN PRODUCT_ID + 1 ELSE PRODUCT_ID,
     usage |-> IF f = "usage" THEN USAGE_ID + 1 ELSE USAGE_ID,
     usage_page |-> IF f = "usage_page" THEN USAGE_PAGE + 1 ELSE USAGE_PAGE,
     path |-> path]

\* api.device_list(): the devices in enumeration order, the path of each
\* being its place in the list
Enumerations ==
    UNION { { [i \in 1..n |-> AllBut(k[i], i)] :
                k \in [1..n -> Fields \cup {"none"}] } : n \in 0..MaxDevices }

InitFind ==
    /\ pc = "send_find"
    /\ clock = 0
    /\ text = << >>
    /\ tickers = Unfetched
    /\ market_open = FALSE
    /\ date = 0
    /\ next_open = 0
    /\ until_open = 0
    /\ refresh_rate = 0
    /\ deadline = 0
    /\ slept = << >>
    /\ decisions = 0
    /\ last_run = None
    /\ buf = << >>
    /\ devs \in Enumerations
    /\ handle = NoHandle
    /\ result = None
    /\ events = << >>
    /\ displayed = Blank
    /\ quotes = NoQuotes
    /\ jumps = 0

NextFind ==
    \/ SendFind
    \/ SendOpen

SpecFind == InitFind /\ [][NextFind]_vars

\* C17: find_elora_device returns the first device, in enumeration order, that
\* matches all four of vendor id, product id, usage and usage page, and none
\* exactly when no device matches all four: a device that matches only some
\* of the fields is never selected and a later match is never preferred to an
\* earlier one.
C17_FirstFullMatch ==
    /\ find_elora_device(devs) = IF NoMatch(devs) THEN 0 ELSE FirstMatch(devs)
    /\ pc = "send_open" => ~NoMatch(devs)
    /\ pc = "run_done" => NoMatch(devs) /\ result = ErrDisconnected
    /\ handle.state = "open" =>
          /\ IsElora(devs[handle.path])
          /\ \A j \in 1..(handle.path - 1) : ~IsElora(devs[j])

\* a device with another usage comes first and two Eloras follow: the first of
\* the two was found and opened
C17_Witness ==
    /\ pc = "send_convert"
    /\ devs = << AllBut("usage", 1), AllBut("none", 2), AllBut("none", 3) >>
    /\ handle = [state |-> "open", path |-> 2]

(***************************************************************************)
(* One decision of the policy and the sleep that follows it, from every    *)
(* instant: main lines 273-277 with a cycle that takes no time             *)
(***************************************************************************)
NextWake ==
    \/ IsMarketOpen
    \/ NextOpenDate
    \/ NextOpenNow
    \/ UntilOpen
    \/ MakeInterval
    \/ Suspend
    \/ IntervalReset
    \/ IntervalTick

SpecWake == InitPolicy /\ [][NextWake]_vars

\* the loop has woken up from the sleep of a decision that read one and the
\* same clock value
WokenUp == pc = "run_start" /\ slept # << >> /\ jumps = 0

\* C18: with one clock value per decision and cycles that take no time, no
\* wake-up sleeps through a market session.  A sleep started at `now` ends no
\* later than 2 minutes after the next market open, so it ends either before
\* that open, the market having stayed closed, or within [14:30, 14:32] of
\* that trading day; and a sleep started while the market is open ends exactly
\* 2 minutes later.
C18_NeverSleepsThroughASession ==
    WokenUp =>
        LET now == clock - slept[1]
        IN  /\ Len(slept) = 1
            /\ clock <= RefNextOpen(now) + 2 * MINUTE
            /\ clock >= RefNextOpen(now) =>
                  /\ (clock \div DAY) % 7 \in {Mon, Tue, Wed, Thu, Fri}
                  /\ clock % DAY >= 14 * HOUR + 30 * MINUTE
                  /\ clock % DAY <= 14 * HOUR + 32 * MINUTE
            /\ RefMarketOpen(now) => clock = now + 2 * MINUTE

\* decided on Monday at 14:29:59, the sleep of 121 seconds ends at 14:32:00
C18_Witness ==
    /\ WokenUp
    /\ slept = << 2 * MINUTE + 1 >>
    /\ clock = Mon * DAY + 14 * HOUR + 32 * MINUTE

\* C19: for every instant, read once by the decision, the wait is at least
\* 2 minutes and less than 3 hours 2 minutes: exactly 120 s when the market is
\* open, exactly 10800 s when it is closed and the next open is 3 hours or
\* more away, strictly between 120 s and 10920 s when it is closed and the
\* next open is less than 3 hours away.  The wait is never zero or negative.
C19_WaitBounds ==
    Decided =>
        /\ refresh_rate >= 2 * MINUTE
        /\ refresh_rate < 3 * HOUR + 2 * MINUTE
        /\ RefMarketOpen(clock) => refresh_rate = 120
        /\ (~RefMarketOpen(clock) /\ RefNextOpen(clock) - clock >= 3 * HOUR)
              => refresh_rate = 10800
        /\ (~RefMarketOpen(clock) /\ RefNextOpen(clock) - clock < 3 * HOUR)
              => refresh_rate > 120 /\ refresh_rate < 10920

\* one second before Monday's open the wait is 121 s; one second inside the
\* three hours before it, 10919 s
C19_Witness ==
    /\ Decided
    /\ \/ clock = Mon * DAY + 14 * HOUR + 29 * MINUTE + 59 /\ refresh_rate = 121
       \/ clock = Mon * DAY + 11 * HOUR + 30 * MINUTE + 1 /\ refresh_rate = 10919

\* every byte of the buffer is zero
AllZero(b) == \A i \in 1..Len(b) : b[i] = 0

\* the buffer a write of this cycle carries comes from this cycle's fetch: the
\* command, the file test and the read came first, the trimmed content is not
\* empty, and the buffer is convert_to_buffer of it
WrittenFromThisFetch ==
    Happened("write") =>
        /\ events = StepOrder
        /\ text # << >>
        /\ \E c \in FileContents : text = trim(c)
        /\ buf = convert_to_buffer(text)
        /\ result = Ok => displayed = buf

\* C20 as stated: a write happens only in a cycle whose command succeeded and
\* whose file existed and was not empty after trimming, its payload is
\* convert_to_buffer of that content, and so an all-zero buffer is never sent.
C20_AllZeroBufferNeverSent ==
    /\ WrittenFromThisFetch
    /\ result \in FetchErrors => ~Happened("write")
    /\ Happened("write") => ~AllZero(buf)
    /\ displayed # Blank => ~AllZero(displayed)

\* C20 as amended: a write happens only in a cycle whose command succeeded and
\* whose file existed and was not empty after trimming, and its payload is
\* convert_to_buffer of that content, so the encoding of an empty text is
\* never sent; an all-zero buffer is sent only for a content whose bytes, up
\* to the packet size, are all NUL.  The display changes in no other step, so
\* a cycle whose fetch fails leaves it as it was.
C20_WriteOnlyAfterSuccessfulFetch ==
    /\ [](/\ WrittenFromThisFetch
          /\ result \in FetchErrors => ~Happened("write")
          /\ (Happened("write") /\ AllZero(buf)) =>
                \A i \in 1..Len(text) : i <= PACKET_SIZE => text[i] = 0)
    /\ [][displayed' # displayed =>
            /\ pc = "send_write"
            /\ text # << >>
            /\ displayed' = convert_to_buffer(text)]_vars

\* the file held a NUL character and a newline: the trimmed content is the
\* one NUL character and the buffer written is all zero
C20_Witness ==
    /\ pc = "run_done"
    /\ result = Ok
    /\ text = << 0 >>
    /\ AllZero(displayed)
    /\ Len(displayed) = PACKET_SIZE
=============================================================================
